---- MODULE Spec2Model ----
(***************************************************************************)
(* A model of the learn-vulkan "hello triangle" application:               *)
(*   - HelloTriangleApplication::new: the chain of reference-counted       *)
(*     wrappers around driver handles (src/src/main.rs and one file per    *)
(*     wrapper);                                                           *)
(*   - HelloTriangleApplication::run / draw_frame: the frame loop, with    *)
(*     the driver's asynchronous side (queue, presentation engine,         *)
(*     semaphores, fences) as environment actions;                         *)
(*   - the teardown: Rc drops, each wrapper's Drop, the destroy calls.     *)
(***************************************************************************)
EXTENDS Integers, Sequences, FiniteSets, TLC

\* ------------------------------------------------------------------ bounds

\* Frames that are followed: the loop is not entered for a further frame.
MaxFrames == 4

\* The largest number of swapchain images the driver hands out.
MaxImages == 3

\* ------------------------------------------------------- program constants

MAX_FRAMES_IN_FLIGHT == 2

\* CommandBuffers::reset resets command_buffers[0].
RESET_INDEX == 0

\* draw_frame records command buffer 0: record(0, image_index, 0, 0, 0).
RECORD_INDEX == 0

VARIABLES
    \* --- build and environment
    validation,      \* ENABLE_VALIDATION_LAYERS = cfg!(debug_assertions)
    numImages,       \* images the driver creates for the swapchain
    devices,         \* the physical devices the driver enumerates, in order
    \* --- the last call of a selection function, with its arguments and result
    call,
    \* --- control
    pc,              \* the statement main's thread executes next
    exitKind,        \* "none" | "returned" | "panicked"
    \* --- ownership
    rc,              \* strong count of each wrapper's Rc
    held,            \* the handles each wrapper's Drop destroys, in order
    locals,          \* new()'s live local wrappers, in declaration order
    app,             \* the fields of HelloTriangleApplication, in order
    created,         \* the driver's create calls, in order
    destroyed,       \* the driver's destroy calls, in order
    \* --- device
    physical_device, \* InnerPhysicalDevice.physical_device: its place in `devices`
    graphics_family, \* InnerPhysicalDevice.graphics_family
    present_family,  \* InnerPhysicalDevice.present_family
    queue,           \* InnerLogicalDevice.queue: the family and index it came from
    \* --- frame loop
    current_frame,
    closeRequested,  \* the user asked the window to close
    shouldClose,     \* the window's should-close flag
    observedClose,   \* what the last should_close() call returned
    frame,           \* frames started so far
    completed,       \* draw_frame calls that returned
    ops,             \* the driver calls of the draw_frame call in progress
    image_index,     \* the index the last acquire returned
    in_flight_fences,           \* Vec<Fence>: index -> signaled
    image_available_semaphores, \* Vec<Semaphore>: index -> signaled
    render_finished_semaphores, \* Vec<Semaphore>: index -> signaled
    command_buffers, \* Vec<CommandBuffer>: index -> state and contents
    images,          \* swapchain image -> its state and the frame that holds it
    acquires,        \* acquires whose semaphore signal is still to come
    batches,         \* submitted batches the queue has not finished
    presents         \* present requests not yet taken up, oldest first

ctl == <<pc, exitKind>>
own == <<rc, held, locals, app, created, destroyed>>
env == <<validation, numImages, devices>>
dev == <<physical_device, graphics_family, present_family, queue>>
win == <<closeRequested, shouldClose, observedClose>>
sync == <<in_flight_fences, image_available_semaphores, render_finished_semaphores>>
gpu == <<images, acquires, batches, presents>>
loop == <<current_frame, frame, completed, ops, image_index, command_buffers>>
vars == <<env, call, dev, ctl, own, win, sync, gpu, loop>>

\* ---------------------------------------------------------------- helpers

Reverse(s) == [i \in 1..Len(s) |-> s[Len(s) + 1 - i]]

Range(s) == {s[i] : i \in 1..Len(s)}

\* The handles <<kind, 0>>, ..., <<kind, n-1>>, in order.
Handles(kind, n) == [i \in 1..n |-> <<kind, i - 1>>]

\* ------------------------------------------------------------ the wrappers

\* One Rc-backed wrapper per module of the application.
Objects ==
    {"window", "instance", "debug_layer", "surface", "physical_device",
     "logical_device", "swapchain", "image_views", "render_pass",
     "graphics_pipeline", "framebuffers", "command_pool", "command_buffers",
     "sync_objects"}

\* Mutant of Fields: InnerSyncObjects keeps no reference to the logical
\* device.
Mut_FieldsSyncWithoutDevice(o) ==
    CASE o = "window"            -> <<>>
      [] o = "instance"          -> <<>>
      [] o = "debug_layer"       -> <<"instance">>
      [] o = "surface"           -> <<"instance", "window">>
      [] o = "physical_device"   -> <<"instance">>
      [] o = "logical_device"    -> <<"physical_device">>
      [] o = "swapchain"         -> <<"logical_device", "physical_device", "surface">>
      [] o = "image_views"       -> <<"logical_device">>
      [] o = "render_pass"       -> <<"swapchain">>
      [] o = "graphics_pipeline" -> <<"render_pass">>
      [] o = "framebuffers"      -> <<"render_pass", "image_views">>
      [] o = "command_pool"      -> <<"logical_device">>
      [] o = "command_buffers"   -> <<"framebuffers", "graphics_pipeline", "command_pool">>
      [] o = "sync_objects"      -> <<>>

\* The Rc fields of each wrapper's inner struct, in declaration order: the
\* order in which Rust drops them once the inner value's Drop has run.
Fields(o) ==
    CASE o = "window"            -> <<>>
      [] o = "instance"          -> <<>>
      [] o = "debug_layer"       -> <<"instance">>
      [] o = "surface"           -> <<"instance", "window">>
      [] o = "physical_device"   -> <<"instance">>
      [] o = "logical_device"    -> <<"physical_device">>
      [] o = "swapchain"         -> <<"logical_device", "physical_device", "surface">>
      [] o = "image_views"       -> <<"logical_device">>
      [] o = "render_pass"       -> <<"swapchain">>
      [] o = "graphics_pipeline" -> <<"render_pass">>
      [] o = "framebuffers"      -> <<"render_pass", "image_views">>
      [] o = "command_pool"      -> <<"logical_device">>
      [] o = "command_buffers"   -> <<"framebuffers", "graphics_pipeline", "command_pool">>
      [] o = "sync_objects"      -> <<"logical_device">>

\* The handle through which a handle of this kind is created and destroyed.
Parent(kind) ==
    CASE kind = "instance" -> "none"
      [] kind \in {"messenger", "surface", "device"} -> "instance"
      [] OTHER -> "device"

\* Mutant of AppFields: sync_objects is declared before command_buffers.
Mut_AppFieldsSyncFirst ==
    <<"window", "logical_device", "swapchain", "sync_objects",
      "command_buffers", "debug_layer">>

\* The fields of HelloTriangleApplication, in declaration order.
AppFields ==
    <<"window", "logical_device", "swapchain", "command_buffers",
      "sync_objects", "debug_layer">>

\* `for _ in 0..=count`: the number of iterations of SyncObjects::new's loop.
SyncIterations(count) == count + 1

\* ------------------------------------------- what the driver reports: bounds

\* The longest device enumeration.
MaxDevices == 3

\* The longest list of instance layers the driver enumerates.
MaxLayers == 2

\* The longest list of surface formats and of present modes.
MaxFormats == 3

\* The largest extent component (window size and surface bounds).
MaxExtent == 3

\* The largest min_image_count / max_image_count of a surface.
MaxImageCount == 3

\* The most queue families a device has.
MaxFamilies == 3

\* ------------------------------------------------- what the driver reports

\* VALIDATION_LAYERS (main.rs) and get_validation_layers() (api2).
VALIDATION_LAYERS == <<"VK_LAYER_KHRONOS_validation">>

\* REQUIRED_EXTENSIONS = [KHR_SWAPCHAIN_NAME]
REQUIRED_EXTENSIONS == <<"VK_KHR_swapchain">>

\* Option::None of a queue family index.
NoFamily == 0 - 1

\* The sequences over S of length lo..hi.
SeqsOf(S, lo, hi) == UNION {[1..n -> S] : n \in lo..hi}

\* The layer lists enumerate_instance_layer_properties may return.
LayerLists ==
    SeqsOf({"VK_LAYER_KHRONOS_validation", "VK_LAYER_LUNARG_api_dump"}, 0, MaxLayers)

\* SurfaceFormatKHR { format, color_space }
SurfaceFormats ==
    [format : {"B8G8R8A8_SRGB", "B8G8R8A8_UNORM"},
     color_space : {"SRGB_NONLINEAR", "EXTENDED_SRGB_LINEAR"}]

PresentModes == {"IMMEDIATE", "MAILBOX", "FIFO"}

\* One queue family of a device: its GRAPHICS flag and the answer of
\* get_physical_device_surface_support for it ("yes", "no" or "error").
Family(g, p) == [graphics |-> g, present |-> p]

\* A physical device as the driver describes it: its queue families, the
\* outcome of enumerate_device_extension_properties, and the outcome of the
\* three surface queries of query_support.
Gpu(fams, extq, exts, supq, fmts, modes) ==
    [families |-> fams, ext_query |-> extq, extensions |-> exts,
     support_query |-> supq, formats |-> fmts, present_modes |-> modes,
     capabilities |-> [min_image_count |-> 1, max_image_count |-> 0]]

Bgra == [format |-> "B8G8R8A8_SRGB", color_space |-> "SRGB_NONLINEAR"]

\* One family that does graphics and present.
UnifiedGpu ==
    Gpu(<<Family(TRUE, "yes")>>, "ok", <<"VK_KHR_swapchain">>, "ok", <<Bgra>>, <<"FIFO">>)

\* Graphics on family 0, present on family 1 only.
SplitGpu ==
    Gpu(<<Family(TRUE, "no"), Family(FALSE, "yes")>>, "ok", <<"VK_KHR_swapchain">>,
        "ok", <<Bgra>>, <<"FIFO">>)

\* The devices a machine may enumerate.
DeviceKinds ==
    {UnifiedGpu,
     SplitGpu,
     \* present on family 0, graphics on family 1
     Gpu(<<Family(FALSE, "yes"), Family(TRUE, "no")>>, "ok", <<"VK_KHR_swapchain">>,
         "ok", <<Bgra>>, <<"FIFO">>),
     \* two families that both do graphics and present
     Gpu(<<Family(TRUE, "yes"), Family(TRUE, "yes")>>, "ok", <<"VK_KHR_swapchain">>,
         "ok", <<Bgra>>, <<"MAILBOX", "FIFO">>),
     \* no family presents to the surface
     Gpu(<<Family(TRUE, "no")>>, "ok", <<"VK_KHR_swapchain">>, "ok", <<Bgra>>, <<"FIFO">>),
     \* no queue family at all
     Gpu(<<>>, "ok", <<"VK_KHR_swapchain">>, "ok", <<Bgra>>, <<"FIFO">>),
     \* the surface-support query fails on family 1
     Gpu(<<Family(TRUE, "yes"), Family(FALSE, "error")>>, "ok", <<"VK_KHR_swapchain">>,
         "ok", <<Bgra>>, <<"FIFO">>),
     \* no swapchain extension
     Gpu(<<Family(TRUE, "yes")>>, "ok", <<"VK_KHR_maintenance1">>, "ok", <<Bgra>>, <<"FIFO">>),
     \* the extension enumeration fails
     Gpu(<<Family(TRUE, "yes")>>, "error", <<>>, "ok", <<Bgra>>, <<"FIFO">>),
     \* no surface format
     Gpu(<<Family(TRUE, "yes")>>, "ok", <<"VK_KHR_swapchain">>, "ok", <<>>, <<"FIFO">>),
     \* no present mode
     Gpu(<<Family(TRUE, "yes")>>, "ok", <<"VK_KHR_swapchain">>, "ok", <<Bgra>>, <<>>),
     \* a surface query of query_support fails
     Gpu(<<Family(TRUE, "yes")>>, "ok", <<"VK_KHR_swapchain">>, "error", <<>>, <<>>)}

\* What enumerate_physical_devices may return: an error, or a list.
Enumerations ==
    [ok : {TRUE}, devices : SeqsOf(DeviceKinds, 0, MaxDevices)]
        \cup {[ok |-> FALSE, devices |-> <<>>]}

\* ---------------------------------------------------------- pure functions

\* utils::check_validation_layer_support: every required layer is among the
\* enumerated ones.
check_validation_layer_support(layers) ==
    \A r \in Range(VALIDATION_LAYERS) : \E i \in 1..Len(layers) : layers[i] = r

\* Mutant of ScanFamilies: the first matching family is kept.
RECURSIVE Mut_ScanKeepsFirst(_, _, _)
Mut_ScanKeepsFirst(families, i, indices) ==
    IF i > Len(families)
    THEN [ok |-> TRUE, graphics_family |-> indices.graphics_family,
          present_family |-> indices.present_family]
    ELSE LET v == families[i]
             g == IF v.graphics /\ indices.graphics_family = NoFamily
                  THEN i - 1 ELSE indices.graphics_family
         IN IF v.present = "error"
            THEN [ok |-> FALSE, graphics_family |-> NoFamily, present_family |-> NoFamily]
            ELSE Mut_ScanKeepsFirst(families, i + 1,
                    [graphics_family |-> g,
                     present_family |-> IF v.present = "yes"
                                             /\ indices.present_family = NoFamily
                                        THEN i - 1
                                        ELSE indices.present_family])

\* QueueFamilyIndices::find_queue_families: the families are scanned in
\* order; a GRAPHICS family overwrites graphics_family, a family that
\* presents to the surface overwrites present_family; a failing
\* surface-support query ends the scan with Err.
RECURSIVE ScanFamilies(_, _, _)
ScanFamilies(families, i, indices) ==
    IF i > Len(families)
    THEN [ok |-> TRUE, graphics_family |-> indices.graphics_family,
          present_family |-> indices.present_family]
    ELSE LET v == families[i]
             g == IF v.graphics THEN i - 1 ELSE indices.graphics_family
         IN IF v.present = "error"
            THEN [ok |-> FALSE, graphics_family |-> NoFamily, present_family |-> NoFamily]
            ELSE ScanFamilies(families, i + 1,
                    [graphics_family |-> g,
                     present_family |-> IF v.present = "yes" THEN i - 1
                                        ELSE indices.present_family])

find_queue_families(device) ==
    ScanFamilies(device.families, 1,
                 [graphics_family |-> NoFamily, present_family |-> NoFamily])

\* Mutant of is_complete: a graphics family is enough.
Mut_CompleteWithGraphicsOnly(indices) == indices.graphics_family # NoFamily

\* QueueFamilyIndices::is_complete
is_complete(indices) ==
    indices.graphics_family # NoFamily /\ indices.present_family # NoFamily

\* check_device_extension_support: Err when the enumeration fails, else
\* whether every required extension is among the available ones.
check_device_extension_support(device) ==
    [ok |-> device.ext_query = "ok",
     supported |-> \A r \in Range(REQUIRED_EXTENSIONS) :
                      \E i \in 1..Len(device.extensions) : device.extensions[i] = r]

\* SwapchainSupportDetails::query_support
query_support(device) ==
    [ok |-> device.support_query = "ok",
     capabilities |-> device.capabilities,
     formats |-> device.formats,
     present_modes |-> device.present_modes]

\* What PhysicalDevice::new and Device::new return, with the per-device
\* queries they made on the way.
Outcome(result, device, indices, log) ==
    [result |-> result, device |-> device,
     graphics_family |-> indices.graphics_family,
     present_family |-> indices.present_family,
     queries |-> log]

NoIndices == [graphics_family |-> NoFamily, present_family |-> NoFamily]

\* Mutant of SelectFrom: the loop gives up after the device it looks at.
RECURSIVE Mut_SelectLooksAtOneDevice(_, _, _)
Mut_SelectLooksAtOneDevice(devs, i, log) ==
    IF i > Len(devs)
    THEN Outcome("NoSuitableDevices", 0, NoIndices, log)
    ELSE LET d == devs[i]
             v == find_queue_families(d)
             e == check_device_extension_support(d)
             s == query_support(d)
             log1 == Append(log, <<i, "queue_families">>)
             log2 == Append(log1, <<i, "extensions">>)
             log3 == Append(log2, <<i, "swapchain_support">>)
         IN IF ~v.ok \/ ~is_complete(v)
            THEN Outcome("NoSuitableDevices", 0, NoIndices, log1)
            ELSE IF ~e.ok
            THEN Outcome("Vulkan", 0, NoIndices, log2)
            ELSE IF ~e.supported
            THEN Outcome("NoSuitableDevices", 0, NoIndices, log2)
            ELSE IF ~s.ok
            THEN Outcome("Vulkan", 0, NoIndices, log3)
            ELSE IF s.formats # <<>> /\ s.present_modes # <<>>
            THEN Outcome("Ok", i, v, log3)
            ELSE Outcome("NoSuitableDevices", 0, NoIndices, log3)

\* The loop of PhysicalDevice::new over the enumerated devices, from the
\* i-th on: a device whose family scan fails or is incomplete is passed
\* over; an error of the extension or swapchain-support query is returned;
\* the first device that passes everything is returned; NoSuitableDevices
\* when the list is exhausted.
RECURSIVE SelectFrom(_, _, _)
SelectFrom(devs, i, log) ==
    IF i > Len(devs)
    THEN Outcome("NoSuitableDevices", 0, NoIndices, log)
    ELSE LET d == devs[i]
             v == find_queue_families(d)
             e == check_device_extension_support(d)
             s == query_support(d)
             log1 == Append(log, <<i, "queue_families">>)
             log2 == Append(log1, <<i, "extensions">>)
             log3 == Append(log2, <<i, "swapchain_support">>)
         IN IF ~v.ok \/ ~is_complete(v)
            THEN SelectFrom(devs, i + 1, log1)
            ELSE IF ~e.ok
            THEN Outcome("Vulkan", 0, NoIndices, log2)
            ELSE IF ~e.supported
            THEN SelectFrom(devs, i + 1, log2)
            ELSE IF ~s.ok
            THEN Outcome("Vulkan", 0, NoIndices, log3)
            ELSE IF s.formats # <<>> /\ s.present_modes # <<>>
            THEN Outcome("Ok", i, v, log3)
            ELSE SelectFrom(devs, i + 1, log3)

\* Mutant of PhysicalDevice_select: the emptiness test is left out.
Mut_SelectWithoutEmptyTest(enumeration) ==
    IF ~enumeration.ok
    THEN Outcome("Vulkan", 0, NoIndices, <<>>)
    ELSE SelectFrom(enumeration.devices, 1, <<>>)

\* PhysicalDevice::new up to its return value.
PhysicalDevice_select(enumeration) ==
    IF ~enumeration.ok
    THEN Outcome("Vulkan", 0, NoIndices, <<>>)
    ELSE IF enumeration.devices = <<>>
    THEN Outcome("NoDevices", 0, NoIndices, <<>>)
    ELSE SelectFrom(enumeration.devices, 1, <<>>)

\* Extensions::default(): the derived Default, an empty list.
Extensions_default == <<>>

\* The extension lists a caller may pass to api2 Device::new.
ExtensionLists == {<<>>, <<"VK_KHR_maintenance1">>}

\* api2 check_device_extension_support(instance, device, extensions): the
\* required extensions are the swapchain extension followed by
\* `extensions`; Err when the enumeration fails, else whether every
\* required extension is among the available ones.
api2_check_device_extension_support(device, extensions) ==
    LET required_extensions == <<"VK_KHR_swapchain">> \o extensions
    IN [ok |-> device.ext_query = "ok",
        required_extensions |-> required_extensions,
        supported |-> \A r \in Range(required_extensions) :
                         \E i \in 1..Len(device.extensions) : device.extensions[i] = r]

\* The loop of api2 Device::new: the same tests, the extension test being
\* made with &Extensions::default(); the first device that passes becomes
\* `detected` and ends the loop.
RECURSIVE Detect(_, _, _)
Detect(devs, i, log) ==
    IF i > Len(devs)
    THEN Outcome("None", 0, NoIndices, log)
    ELSE LET d == devs[i]
             v == find_queue_families(d)
             e == api2_check_device_extension_support(d, Extensions_default)
             s == query_support(d)
             log1 == Append(log, <<i, "queue_families">>)
             log2 == Append(log1, <<i, "extensions">>)
             log3 == Append(log2, <<i, "swapchain_support">>)
         IN IF ~v.ok \/ ~is_complete(v)
            THEN Detect(devs, i + 1, log1)
            ELSE IF ~e.ok
            THEN Outcome("Vulkan", 0, NoIndices, log2)
            ELSE IF ~e.supported
            THEN Detect(devs, i + 1, log2)
            ELSE IF ~s.ok
            THEN Outcome("Vulkan", 0, NoIndices, log3)
            ELSE IF s.formats # <<>> /\ s.present_modes # <<>>
            THEN Outcome("Some", i, v, log3)
            ELSE Detect(devs, i + 1, log3)

\* The create_device call of api2 Device::new: whether it is made, for
\* which device, with which enabled_extension_names (extensions.as_vec_ptr()
\* of the `extensions` argument), and the list the device was tested
\* against in the loop.
Device_create_info(enumeration, extensions) ==
    LET detected == IF enumeration.ok /\ enumeration.devices # <<>>
                    THEN Detect(enumeration.devices, 1, <<>>)
                    ELSE Outcome("None", 0, NoIndices, <<>>)
    IN [called |-> detected.result = "Some",
        physical |-> detected.device,
        enabled_extension_names |-> extensions,
        checked_extensions |->
            IF detected.result = "Some"
            THEN api2_check_device_extension_support(
                     enumeration.devices[detected.device],
                     Extensions_default).required_extensions
            ELSE <<>>]

\* api2 Device::new up to its return value; `device_created` is whether
\* the driver is able to create a device for the detected physical device;
\* it refuses (ERROR_EXTENSION_NOT_PRESENT) a list of extensions to enable
\* that the physical device does not support.
Device_select(enumeration, extensions, device_created) ==
    IF ~enumeration.ok
    THEN Outcome("Vulkan", 0, NoIndices, <<>>)
    ELSE IF enumeration.devices = <<>>
    THEN Outcome("NoDevices", 0, NoIndices, <<>>)
    ELSE LET detected == Detect(enumeration.devices, 1, <<>>)
         IN CASE detected.result = "None" ->
                    Outcome("NoSuitableDevices", 0, NoIndices, detected.queries)
              [] detected.result = "Vulkan" -> detected
              [] OTHER ->
                    IF /\ device_created
                       /\ \A x \in Range(extensions) :
                             x \in Range(enumeration.devices[detected.device].extensions)
                    THEN Outcome("Ok", detected.device, detected, detected.queries)
                    ELSE Outcome("Vulkan", 0, NoIndices, detected.queries)

\* api2 Instance::new: NoValidationLayer when the debug layer is asked for
\* and every validation layer is among the available ones; else the
\* instance is created with the validation layers enabled when the debug
\* layer is asked for, which the driver refuses (ERROR_LAYER_NOT_PRESENT)
\* when a layer to enable is not available.
api2_Instance_new(enable_debug_layer, available_layers) ==
    IF enable_debug_layer
         /\ \A v \in Range(VALIDATION_LAYERS) :
               \E i \in 1..Len(available_layers) : available_layers[i] = v
    THEN [result |-> "NoValidationLayer", create_instance |-> FALSE]
    ELSE LET enabled == IF enable_debug_layer THEN VALIDATION_LAYERS ELSE <<>>
         IN IF \A l \in Range(enabled) :
                  \E i \in 1..Len(available_layers) : available_layers[i] = l
            THEN [result |-> "Ok", create_instance |-> TRUE]
            ELSE [result |-> "Vulkan", create_instance |-> TRUE]

\* Whether a format is the preferred one.
Preferred(format) ==
    format.format = "B8G8R8A8_SRGB" /\ format.color_space = "SRGB_NONLINEAR"

\* Mutant of choose_format: always the first entry.
Mut_ChooseFirstFormat(formats) == formats[1]

\* SwapchainSupportDetails::choose_format: the first preferred entry, else
\* formats[0].
choose_format(formats) ==
    LET hits == {i \in 1..Len(formats) : Preferred(formats[i])}
    IN IF hits # {}
       THEN formats[CHOOSE i \in hits : \A j \in hits : i <= j]
       ELSE formats[1]

\* Mutant of choose_present_mode: the first mode of the list.
Mut_ChooseFirstMode(present_modes) == present_modes[1]

\* SwapchainSupportDetails::choose_present_mode
choose_present_mode(present_modes) ==
    IF \E i \in 1..Len(present_modes) : present_modes[i] = "MAILBOX"
    THEN "MAILBOX"
    ELSE "FIFO"

\* Mutant of clamp: no upper bound.
Mut_ClampBelowOnly(val, min, max) == IF val > min THEN val ELSE min

\* nalgebra::clamp(val, min, max)
clamp(val, min, max) ==
    IF val > min
    THEN IF val < max THEN val ELSE max
    ELSE min

\* SwapchainSupportDetails::choose_extent: the framebuffer size (never
\* negative, so that `as u32` keeps its value), each component clamped into
\* the surface's bounds.
choose_extent(size, min_image_extent, max_image_extent) ==
    [width |-> clamp(size[1], min_image_extent.width, max_image_extent.width),
     height |-> clamp(size[2], min_image_extent.height, max_image_extent.height)]

\* Mutant of image_count: the cap is applied whatever max_image_count is.
Mut_ImageCountAlwaysCapped(capabilities) ==
    IF capabilities.min_image_count + 1 > capabilities.max_image_count
    THEN capabilities.max_image_count
    ELSE capabilities.min_image_count + 1

\* Swapchain::new: the image count it asks for (the counts a surface
\* reports are far from u32::MAX: the addition does not overflow).
image_count(capabilities) ==
    LET count == capabilities.min_image_count + 1
    IN IF capabilities.max_image_count > 0 /\ count > capabilities.max_image_count
       THEN capabilities.max_image_count
       ELSE count

\* -------------------------------------------------------------------- Init

\* An image nobody holds: the presentation engine can hand it out.
FreeImage == [state |-> "free", frame |-> 0]

\* No queue retrieved yet.
NoQueue == [family |-> NoFamily, index |-> 0]

\* No selection function has been called.
NoCall == [fn |-> "none"]

\* main() starts: nothing is constructed.
Start ==
    /\ call = NoCall
    /\ physical_device = 0
    /\ graphics_family = NoFamily
    /\ present_family = NoFamily
    /\ queue = NoQueue
    /\ pc = "check_layers"
    /\ exitKind = "none"
    /\ rc = [o \in Objects |-> 0]
    /\ held = [o \in Objects |-> <<>>]
    /\ locals = <<>>
    /\ app = <<>>
    /\ created = <<>>
    /\ destroyed = <<>>
    /\ current_frame = 0
    /\ closeRequested = FALSE
    /\ shouldClose = FALSE
    /\ observedClose = FALSE
    /\ frame = 0
    /\ completed = 0
    /\ ops = <<>>
    /\ image_index = 0
    /\ in_flight_fences = <<>>
    /\ image_available_semaphores = <<>>
    /\ render_finished_semaphores = <<>>
    /\ command_buffers = <<>>
    /\ images = <<>>
    /\ acquires = {}
    /\ batches = {}
    /\ presents = <<>>

\* A machine with one GPU whose only queue family does graphics and present.
Init ==
    /\ validation \in BOOLEAN
    /\ numImages \in 2..MaxImages
    /\ devices = <<UnifiedGpu>>
    /\ Start

\* A debug build on a machine whose one GPU is either of the two kinds: one
\* family for graphics and present, or a family for each.
InitSplitQueues ==
    /\ validation = TRUE
    /\ numImages = 2
    /\ devices \in {<<UnifiedGpu>>, <<SplitGpu>>}
    /\ Start

\* ------------------------------------------------ HelloTriangleApplication::new

\* Ok(Self(Rc::new(Inner { .. }))): a new Rc with count 1, bound to a local;
\* every Rc field of the inner struct is a clone the caller made.
Construct(o, creates, destroys, next) ==
    /\ rc' = [x \in Objects |->
                rc[x] + (IF x = o THEN 1 ELSE 0)
                      + Cardinality({i \in 1..Len(Fields(o)) : Fields(o)[i] = x})]
    /\ held' = [held EXCEPT ![o] = destroys]
    /\ created' = created \o creates
    /\ locals' = Append(locals, o)
    /\ pc' = next

\* The driver objects the constructor called at a step of new() creates, in
\* the order of its create calls.
Creations(step) ==
    CASE step = "new_instance"          -> <<<<"instance", 0>>>>
      [] step = "new_debug_layer"       -> <<<<"messenger", 0>>>>
      [] step = "new_surface"           -> <<<<"surface", 0>>>>
      [] step = "new_logical_device"    -> <<<<"device", 0>>>>
      [] step = "new_swapchain"         -> <<<<"swapchain", 0>>>>
      [] step = "new_image_views"       -> Handles("image_view", Cardinality(DOMAIN images))
      [] step = "new_render_pass"       -> <<<<"render_pass", 0>>>>
      [] step = "new_graphics_pipeline" ->
            <<<<"shader_module", 0>>, <<"shader_module", 1>>,
              <<"pipeline_layout", 0>>, <<"pipeline", 0>>>>
      [] step = "new_framebuffers"      -> Handles("framebuffer", Len(held["image_views"]))
      [] step = "new_command_pool"      -> <<<<"command_pool", 0>>>>
      [] step = "new_sync_objects"      ->
            [i \in 1..(3 * SyncIterations(MAX_FRAMES_IN_FLIGHT)) |->
                CASE i % 3 = 1 -> <<"image_available", (i - 1) \div 3>>
                  [] i % 3 = 2 -> <<"render_finished", (i - 1) \div 3>>
                  [] OTHER     -> <<"fence", (i - 1) \div 3>>]
      [] OTHER                          -> <<>>

\* The calls of the constructor that may fail: each of its create calls
\* (one call at least); Swapchain::new also calls get_swapchain_images
\* after create_swapchain.
FailPoints(step) ==
    IF step = "new_swapchain" THEN 2
    ELSE IF Creations(step) = <<>> THEN 1
    ELSE Len(Creations(step))

\* `if ENABLE_VALIDATION_LAYERS && !check_validation_layer_support(..) { panic!() }`:
\* the driver enumerates the validation layer or it does not.
CheckLayers ==
    /\ pc = "check_layers"
    /\ \E layers \in LayerLists :
          IF validation /\ ~check_validation_layer_support(layers)
          THEN /\ pc' = "exit"
               /\ exitKind' = "panicked"
          ELSE /\ pc' = "new_window"
               /\ UNCHANGED exitKind
    /\ UNCHANGED <<env, call, dev, own, win, sync, gpu, loop>>

Window_new ==
    /\ pc = "new_window"
    /\ Construct("window", <<>>, <<>>, "new_instance")
    /\ UNCHANGED <<env, call, dev, exitKind, app, destroyed, win, sync, gpu, loop>>

Instance_new ==
    /\ pc = "new_instance"
    /\ Construct("instance", <<<<"instance", 0>>>>, <<<<"instance", 0>>>>,
                 IF validation THEN "new_debug_layer" ELSE "new_surface")
    /\ UNCHANGED <<env, call, dev, exitKind, app, destroyed, win, sync, gpu, loop>>

DebugLayer_new ==
    /\ pc = "new_debug_layer"
    /\ Construct("debug_layer", <<<<"messenger", 0>>>>, <<<<"messenger", 0>>>>,
                 "new_surface")
    /\ UNCHANGED <<env, call, dev, exitKind, app, destroyed, win, sync, gpu, loop>>

Surface_new ==
    /\ pc = "new_surface"
    /\ Construct("surface", <<<<"surface", 0>>>>, <<<<"surface", 0>>>>,
                 "new_physical_device")
    /\ UNCHANGED <<env, call, dev, exitKind, app, destroyed, win, sync, gpu, loop>>

\* The first suitable device of the enumeration, with its queue family
\* indices.  A physical device is enumerated, not created: Drop destroys
\* nothing.
PhysicalDevice_new ==
    /\ pc = "new_physical_device"
    /\ LET selected == PhysicalDevice_select([ok |-> TRUE, devices |-> devices])
       IN /\ selected.result = "Ok"
          /\ physical_device' = selected.device
          /\ graphics_family' = selected.graphics_family
          /\ present_family' = selected.present_family
    /\ Construct("physical_device", <<>>, <<>>, "new_logical_device")
    /\ UNCHANGED <<env, call, queue, exitKind, app, destroyed, win, sync, gpu, loop>>

\* create_device with one queue per distinct family of {graphics, present};
\* the queue kept is get_device_queue(graphics_family_u32(), 0).
LogicalDevice_new ==
    /\ pc = "new_logical_device"
    /\ Construct("logical_device", <<<<"device", 0>>>>, <<<<"device", 0>>>>,
                 "new_swapchain")
    /\ queue' = [family |-> graphics_family, index |-> 0]
    /\ UNCHANGED <<env, call, physical_device, graphics_family, present_family, exitKind, app, destroyed, win, sync, gpu, loop>>

\* create_swapchain, then get_swapchain_images: the images belong to the
\* swapchain and are all owned by the presentation engine at first.
Swapchain_new ==
    /\ pc = "new_swapchain"
    /\ numImages >= image_count(devices[physical_device].capabilities)
    /\ Construct("swapchain", <<<<"swapchain", 0>>>>, <<<<"swapchain", 0>>>>,
                 "new_image_views")
    /\ images' = [i \in 0..(numImages - 1) |-> FreeImage]
    /\ UNCHANGED <<env, call, dev, exitKind, app, destroyed, win, sync,
                   acquires, batches, presents, loop>>

\* Swapchain::images(): the images of get_swapchain_images, the image that
\* acquire_next_image calls index i at position i of the Vec.
Swapchain_images == [k \in 1..Cardinality(DOMAIN images) |-> k - 1]

\* Mutant of ImageViews_image_views: the views are pushed in reverse order.
Mut_ImageViewsReversed ==
    [k \in 1..Len(held["image_views"]) |->
        [handle |-> held["image_views"][k],
         image |-> Swapchain_images[Len(held["image_views"]) + 1 - k]]]

\* ImageViews::image_views(): `for image in swapchain.images()` creates a
\* view of the image and pushes it, so the k-th view is of the k-th image.
ImageViews_image_views ==
    [k \in 1..Len(held["image_views"]) |->
        [handle |-> held["image_views"][k], image |-> Swapchain_images[k]]]

\* Framebuffers::framebuffers(): `for image_view in image_views.image_views()`
\* creates a framebuffer with attachments [*image_view] and pushes it.
Framebuffers_framebuffers ==
    [k \in 1..Len(held["framebuffers"]) |->
        [handle |-> held["framebuffers"][k],
         attachments |-> <<ImageViews_image_views[k].handle>>]]

\* A command buffer that has recorded no render pass.
NoFramebuffer == [handle |-> <<"none", 0>>, attachments |-> <<>>]

\* One image view per swapchain image, in the order of the images.
ImageViews_new ==
    /\ pc = "new_image_views"
    /\ LET hs == Creations("new_image_views")
       IN Construct("image_views", hs, hs, "new_render_pass")
    /\ UNCHANGED <<env, call, dev, exitKind, app, destroyed, win, sync, gpu, loop>>

RenderPass_new ==
    /\ pc = "new_render_pass"
    /\ Construct("render_pass", <<<<"render_pass", 0>>>>, <<<<"render_pass", 0>>>>,
                 "new_graphics_pipeline")
    /\ UNCHANGED <<env, call, dev, exitKind, app, destroyed, win, sync, gpu, loop>>

\* Two shader modules, the layout, the pipeline; the shader modules are
\* locals of the constructor and are destroyed when it returns.  Drop
\* destroys the pipelines first and the layout second.
GraphicsPipeline_new ==
    /\ pc = "new_graphics_pipeline"
    /\ Construct("graphics_pipeline",
                 <<<<"shader_module", 0>>, <<"shader_module", 1>>,
                   <<"pipeline_layout", 0>>, <<"pipeline", 0>>>>,
                 <<<<"pipeline", 0>>, <<"pipeline_layout", 0>>>>,
                 "new_framebuffers")
    /\ destroyed' = destroyed \o <<<<"shader_module", 0>>, <<"shader_module", 1>>>>
    /\ UNCHANGED <<env, call, dev, exitKind, app, win, sync, gpu, loop>>

\* One framebuffer per image view, in the order of the image views.
Framebuffers_new ==
    /\ pc = "new_framebuffers"
    /\ LET hs == Creations("new_framebuffers")
       IN Construct("framebuffers", hs, hs, "new_command_pool")
    /\ UNCHANGED <<env, call, dev, exitKind, app, destroyed, win, sync, gpu, loop>>

CommandPool_new ==
    /\ pc = "new_command_pool"
    /\ Construct("command_pool", <<<<"command_pool", 0>>>>, <<<<"command_pool", 0>>>>,
                 "new_command_buffers")
    /\ UNCHANGED <<env, call, dev, exitKind, app, destroyed, win, sync, gpu, loop>>

\* allocate_command_buffers with command_buffer_count = MAX_FRAMES_IN_FLIGHT.
\* InnerCommandBuffers has no Drop: the buffers go with their pool.
CommandBuffers_new ==
    /\ pc = "new_command_buffers"
    /\ Construct("command_buffers", <<>>, <<>>, "new_sync_objects")
    /\ command_buffers' = [i \in 0..(MAX_FRAMES_IN_FLIGHT - 1) |->
                             [state |-> "initial", image |-> -1, framebuffer |-> NoFramebuffer]]
    /\ UNCHANGED <<env, call, dev, exitKind, app, destroyed, win, sync, gpu,
                   current_frame, frame, completed, ops, image_index>>

\* Mutant of FenceCreatedSignaled: the fences are created unsignaled.
Mut_FenceCreatedUnsignaled == FALSE

\* FenceCreateInfo::default().flags(FenceCreateFlags::SIGNALED): the state of
\* a fence at its creation.
FenceCreatedSignaled == TRUE

\* SyncObjects::new(logical_device, MAX_FRAMES_IN_FLIGHT): per iteration one
\* image-available semaphore, one render-finished semaphore and one fence
\* created SIGNALED.  Drop destroys the three vectors one after the other.
SyncObjects_new ==
    /\ pc = "new_sync_objects"
    /\ LET n == SyncIterations(MAX_FRAMES_IN_FLIGHT)
           each == Creations("new_sync_objects")
       IN /\ Construct("sync_objects", each,
                       Handles("image_available", n) \o Handles("render_finished", n)
                           \o Handles("fence", n),
                       "new_return")
          /\ image_available_semaphores' = [i \in 0..(n - 1) |-> FALSE]
          /\ render_finished_semaphores' = [i \in 0..(n - 1) |-> FALSE]
          /\ in_flight_fences' = [i \in 0..(n - 1) |-> FenceCreatedSignaled]
    /\ UNCHANGED <<env, call, dev, exitKind, app, destroyed, win, gpu, loop>>

\* ------------------------------------------------------------------- drops

\* Drop for the inner value of wrapper o: its destroy calls, in order.
DropDestroys(o, handles) == handles[o]

\* Mutant of IsLastOwner: every drop of a reference drops the inner value.
Mut_EveryOwnerIsLast(count) == TRUE

\* Whether dropping one Rc reference with this strong count drops the inner
\* value.
IsLastOwner(count) == count = 1

\* The drop of the Rc references on the stack, the first one first.  A drop
\* lowers the strong count; the last owner's drop runs the inner value's
\* Drop and then drops its fields in declaration order, before anything
\* else that is pending.  The result is the counts and the destroy calls.
RECURSIVE DropAll(_, _, _)
DropAll(stack, counts, log) ==
    IF stack = <<>>
    THEN [rc |-> counts, destroyed |-> log]
    ELSE LET o == Head(stack)
             last == IsLastOwner(counts[o])
         IN DropAll(IF last THEN Fields(o) \o Tail(stack) ELSE Tail(stack),
                    [counts EXCEPT ![o] = @ - 1],
                    IF last THEN log \o DropDestroys(o, held) ELSE log)

\* Self { current_frame: 0, window, logical_device, swapchain,
\* command_buffers, sync_objects, debug_layer }: six locals move into the
\* struct, the others are dropped in reverse declaration order.
New_return ==
    /\ pc = "new_return"
    /\ app' = SelectSeq(AppFields, LAMBDA o : o \in Range(locals))
    /\ LET after == DropAll(
                      Reverse(SelectSeq(locals, LAMBDA o : o \notin Range(AppFields))),
                      rc, destroyed)
       IN /\ rc' = after.rc
          /\ destroyed' = after.destroyed
    /\ locals' = <<>>
    /\ current_frame' = 0
    /\ pc' = "loop_check"
    /\ UNCHANGED <<env, call, dev, exitKind, held, created, win, sync, gpu,
                   frame, completed, ops, image_index, command_buffers>>

NewFallible ==
    {"new_window", "new_instance", "new_debug_layer", "new_surface",
     "new_physical_device", "new_logical_device", "new_swapchain",
     "new_image_views", "new_render_pass", "new_graphics_pipeline",
     "new_framebuffers", "new_command_pool", "new_command_buffers",
     "new_sync_objects"}

\* Mutant of ErrorPathDestroys: the failing constructor destroys what it
\* had created.
Mut_ErrorPathRollsBack(made) == Reverse(made)

\* The destroy calls made when a constructor leaves early with the objects
\* `made` already created: the raw handles kept in a local Vec or variable
\* have no Drop; the two ShaderModule wrappers of GraphicsPipeline::new do.
ErrorPathDestroys(made) == SelectSeq(made, LAMBDA h : h[1] = "shader_module")

\* The k-th fallible call of a constructor returns Err (or, for the shader
\* modules, panics at once) and new() unwraps it: the constructor leaves
\* with the objects of its first k-1 create calls made, and the panic
\* unwinds new(), dropping its locals in reverse declaration order.
NewPanics ==
    /\ pc \in NewFallible
    /\ \E k \in 1..FailPoints(pc) :
          LET made == SubSeq(Creations(pc), 1, k - 1)
              after == DropAll(Reverse(locals), rc, destroyed \o ErrorPathDestroys(made))
          IN /\ created' = created \o made
             /\ rc' = after.rc
             /\ destroyed' = after.destroyed
    /\ locals' = <<>>
    /\ pc' = "exit"
    /\ exitKind' = "panicked"
    /\ UNCHANGED <<env, call, dev, held, app, win, sync, gpu, loop>>

\* ------------------------------------------- HelloTriangleApplication::run

\* The frames whose submitted batch the queue has not finished.
InFlight == {b.frame : b \in batches}

\* `while !self.window.should_close()`.  A run with the window still open
\* after MaxFrames frames is not followed further.
LoopCheck ==
    /\ pc = "loop_check"
    /\ observedClose' = shouldClose
    /\ IF shouldClose
       THEN /\ pc' = "wait_idle"
            /\ UNCHANGED <<frame, ops>>
       ELSE /\ frame < MaxFrames
            /\ pc' = "poll_events"
            /\ frame' = frame + 1
            /\ ops' = <<>>
    /\ UNCHANGED <<env, call, dev, exitKind, own, closeRequested, shouldClose, sync, gpu,
                   current_frame, completed, image_index, command_buffers>>

\* The user asks the window to close; the next poll_events delivers the
\* request.
UserCloses ==
    /\ app # <<>>
    /\ ~closeRequested
    /\ closeRequested' = TRUE
    /\ UNCHANGED <<env, call, dev, ctl, own, shouldClose, observedClose, sync, gpu, loop>>

\* glfw.poll_events(): the window's should-close flag is set if the user
\* has asked to close, and left alone otherwise.
Window_poll_events ==
    /\ pc = "poll_events"
    /\ shouldClose' = (shouldClose \/ closeRequested)
    /\ pc' = "wait_fence"
    /\ UNCHANGED <<env, call, dev, exitKind, own, closeRequested, observedClose, sync,
                   gpu, loop>>

\* ------------------------------------ HelloTriangleApplication::draw_frame

\* Mutant of FenceWaitReturns: the wait gives up at once (a timeout of 0).
Mut_FenceWaitTimesOut(index) == TRUE

\* wait_for_fences(&[in_flight_fences[index]], true, u64::MAX): returns once
\* the fence is signaled.
FenceWaitReturns(index) == in_flight_fences[index]

SyncObjects_wait_in_flight_fence ==
    /\ pc = "wait_fence"
    /\ FenceWaitReturns(current_frame)
    /\ ops' = Append(ops, "wait_fence")
    /\ pc' = "reset_fence"
    /\ UNCHANGED <<env, call, dev, exitKind, own, win, sync, gpu, current_frame, frame,
                   completed, image_index, command_buffers>>

SyncObjects_reset_in_flight_fence ==
    /\ pc = "reset_fence"
    /\ in_flight_fences' = [in_flight_fences EXCEPT ![current_frame] = FALSE]
    /\ ops' = Append(ops, "reset_fence")
    /\ pc' = "acquire"
    /\ UNCHANGED <<env, call, dev, exitKind, own, win, image_available_semaphores,
                   render_finished_semaphores, gpu, current_frame, frame,
                   completed, image_index, command_buffers>>

\* Mutant of AcquireSignal: the acquire signals the other slot's semaphore.
Mut_AcquireSignalsOtherSlot == (current_frame + 1) % MAX_FRAMES_IN_FLIGHT

\* The semaphore acquire_next_image is told to signal.
AcquireSignal == current_frame

\* acquire_next_image(u64::MAX, Some(image_available_semaphore(current_frame)),
\* None): returns the index of an image the presentation engine can give
\* away; the semaphore is signaled later, when the image may be written.
Swapchain_acquire_next_image ==
    /\ pc = "acquire"
    /\ \E i \in DOMAIN images :
          /\ images[i].state = "free"
          /\ images' = [images EXCEPT ![i] = [state |-> "acquired", frame |-> frame]]
          /\ image_index' = i
          /\ acquires' = acquires \cup
                {[frame |-> frame, image |-> i, sem |-> AcquireSignal]}
    /\ ops' = Append(ops, "acquire")
    /\ pc' = "reset_cb"
    /\ UNCHANGED <<env, call, dev, exitKind, own, win, sync, batches, presents, current_frame,
                   frame, completed, command_buffers>>

\* Mutant of CommandBuffers_reset: draw_frame goes from the reset straight to
\* the submit, without recording.
Mut_ResetThenSubmit ==
    /\ pc = "reset_cb"
    /\ command_buffers' = [command_buffers EXCEPT ![RESET_INDEX] =
                              [state |-> "initial", image |-> -1, framebuffer |-> NoFramebuffer]]
    /\ ops' = Append(ops, "reset_cb")
    /\ pc' = "submit"
    /\ UNCHANGED <<env, call, dev, exitKind, own, win, sync, gpu, current_frame, frame,
                   completed, image_index>>

\* CommandBuffers::reset: reset_command_buffer(command_buffers[0], ..).
CommandBuffers_reset ==
    /\ pc = "reset_cb"
    /\ command_buffers' = [command_buffers EXCEPT ![RESET_INDEX] =
                              [state |-> "initial", image |-> -1, framebuffer |-> NoFramebuffer]]
    /\ ops' = Append(ops, "reset_cb")
    /\ pc' = "record"
    /\ UNCHANGED <<env, call, dev, exitKind, own, win, sync, gpu, current_frame, frame,
                   completed, image_index>>

\* CommandBuffers::record(0, image_index, 0, 0, 0): begin, the render pass on
\* framebuffers()[image_index], the draw, end.
CommandBuffers_record ==
    /\ pc = "record"
    /\ command_buffers' = [command_buffers EXCEPT ![RECORD_INDEX] =
                              [state |-> "executable", image |-> image_index,
                               framebuffer |-> Framebuffers_framebuffers[image_index + 1]]]
    /\ ops' = Append(ops, "record")
    /\ pc' = "submit"
    /\ UNCHANGED <<env, call, dev, exitKind, own, win, sync, gpu, current_frame, frame,
                   completed, image_index>>

\* Mutant of SubmitWait: the submit waits on the other slot's semaphore.
Mut_SubmitWaitsOtherSlot == (current_frame + 1) % MAX_FRAMES_IN_FLIGHT

\* The semaphore the submit waits on, the one it signals, and its fence.
SubmitWait == current_frame
SubmitSignal == current_frame
SubmitFence == current_frame

\* .command_buffers(self.command_buffers.command_buffers()): the whole Vec.
SubmittedBuffers == DOMAIN command_buffers

\* queue_submit(queue, [SubmitInfo { wait: [image_available[current_frame]],
\* command_buffers: command_buffers(), signal: [render_finished[current_frame]] }],
\* in_flight_fence(current_frame)): one batch holding every command buffer.
Queue_submit ==
    /\ pc = "submit"
    /\ batches' = batches \cup
          {[frame |-> frame, stage |-> "queued", wait |-> SubmitWait,
            signal |-> SubmitSignal, fence |-> SubmitFence,
            cbs |-> SubmittedBuffers, queue |-> queue]}
    /\ ops' = Append(ops, "submit")
    /\ pc' = "present"
    /\ UNCHANGED <<env, call, dev, exitKind, own, win, sync, images, acquires, presents,
                   current_frame, frame, completed, image_index, command_buffers>>

\* The semaphore the present waits on: signal_semaphores of the submit.
PresentWait == current_frame

\* queue_present(&signal_semaphores, &[image_index]), which presents on
\* *self.0.logical_device.queue().
Swapchain_queue_present ==
    /\ pc = "present"
    /\ presents' = Append(presents,
                          [frame |-> frame, wait |-> PresentWait, image |-> image_index,
                           queue |-> queue])
    /\ images' = [images EXCEPT ![image_index] = [state |-> "queued", frame |-> frame]]
    /\ ops' = Append(ops, "present")
    /\ pc' = "advance"
    /\ UNCHANGED <<env, call, dev, exitKind, own, win, sync, acquires, batches, current_frame,
                   frame, completed, image_index, command_buffers>>

\* Mutant of NextFrame: the modulo is forgotten.
Mut_NextFrameNoModulo(cur) == cur + 1

\* self.current_frame = (self.current_frame + 1) % MAX_FRAMES_IN_FLIGHT
NextFrame(cur) == (cur + 1) % MAX_FRAMES_IN_FLIGHT

Advance ==
    /\ pc = "advance"
    /\ current_frame' = NextFrame(current_frame)
    /\ completed' = completed + 1
    /\ ops' = Append(ops, "advance")
    /\ pc' = "loop_check"
    /\ UNCHANGED <<env, call, dev, exitKind, own, win, sync, gpu, frame, image_index,
                   command_buffers>>

\* Mutant of WaitIdleReturns: the call returns without waiting.
Mut_WaitIdleReturnsAtOnce == TRUE

\* device_wait_idle(): returns once the queue holds no unfinished work.
WaitIdleReturns == batches = {} /\ presents = <<>>

\* self.logical_device.wait_idle().unwrap(): the last statement of run().
LogicalDevice_wait_idle ==
    /\ pc = "wait_idle"
    /\ WaitIdleReturns
    /\ exitKind' = "returned"
    /\ pc' = "main_end"
    /\ UNCHANGED <<env, call, dev, own, win, sync, gpu, loop>>

\* main ends: app goes out of scope and its fields are dropped in
\* declaration order.
Main_end ==
    /\ pc = "main_end"
    /\ LET after == DropAll(app, rc, destroyed)
       IN /\ rc' = after.rc
          /\ destroyed' = after.destroyed
    /\ app' = <<>>
    /\ pc' = "exit"
    /\ UNCHANGED <<env, call, dev, exitKind, held, locals, created, win, sync, gpu, loop>>

RunFallible ==
    {"wait_fence", "reset_fence", "acquire", "reset_cb", "record", "submit",
     "present", "wait_idle"}

\* Mutant of RunPanics: the error is noticed but the caller goes on.
Mut_RunGoesOnAfterError ==
    /\ pc \in RunFallible
    /\ exitKind = "none"
    /\ exitKind' = "panicked"
    /\ UNCHANGED <<env, call, dev, pc, own, win, sync, gpu, loop>>

\* The command buffers a failing step leaves behind.  CommandBuffers::record
\* has two fallible calls: when begin_command_buffer fails the buffer is as
\* the reset left it; when end_command_buffer fails the buffer has been
\* begun and holds the render pass on framebuffers()[image_index], and is
\* still in the recording state.  The other steps do not touch the buffers.
PanicBuffers ==
    IF pc = "record"
    THEN {command_buffers,
          [command_buffers EXCEPT ![RECORD_INDEX] =
              [state |-> "recording", image |-> image_index,
               framebuffer |-> Framebuffers_framebuffers[image_index + 1]]]}
    ELSE {command_buffers}

\* A driver call returns an error and the caller unwraps it: the panic
\* unwinds draw_frame, run and main, where app is dropped.
RunPanics ==
    /\ pc \in RunFallible
    /\ exitKind' = "panicked"
    /\ command_buffers' \in PanicBuffers
    /\ LET after == DropAll(app, rc, destroyed)
       IN /\ rc' = after.rc
          /\ destroyed' = after.destroyed
    /\ app' = <<>>
    /\ pc' = "exit"
    /\ UNCHANGED <<env, call, dev, held, locals, created, win, sync, gpu, current_frame,
                   frame, completed, ops, image_index>>

\* ------------------------------------------- the driver's asynchronous side

\* The presentation engine releases an acquired image for writing and
\* signals the semaphore given to acquire_next_image.
AcquireSignals(a) ==
    /\ acquires' = acquires \ {a}
    /\ image_available_semaphores' =
          [image_available_semaphores EXCEPT ![a.sem] = TRUE]
    /\ UNCHANGED <<env, call, dev, ctl, own, win, in_flight_fences, render_finished_semaphores,
                   images, batches, presents, loop>>

\* The batch's semaphore wait is satisfied at its wait stage
\* (COLOR_ATTACHMENT_OUTPUT): the wait unsignals the semaphore and the
\* batch goes on to write its color attachment.
SubmitStarts(b) ==
    /\ b.stage = "queued"
    /\ image_available_semaphores[b.wait]
    /\ image_available_semaphores' =
          [image_available_semaphores EXCEPT ![b.wait] = FALSE]
    /\ batches' = (batches \ {b}) \cup {[b EXCEPT !.stage = "running"]}
    /\ UNCHANGED <<env, call, dev, ctl, own, win, in_flight_fences, render_finished_semaphores,
                   images, acquires, presents, loop>>

\* The batch completes: its signal semaphore and its fence are signaled.
SubmitCompletes(b) ==
    /\ b.stage = "running"
    /\ batches' = batches \ {b}
    /\ render_finished_semaphores' =
          [render_finished_semaphores EXCEPT ![b.signal] = TRUE]
    /\ in_flight_fences' = [in_flight_fences EXCEPT ![b.fence] = TRUE]
    /\ UNCHANGED <<env, call, dev, ctl, own, win, image_available_semaphores, images, acquires,
                   presents, loop>>

\* The presentation engine takes up the oldest present request once its
\* semaphore is signaled (requests sent to one queue are taken up in
\* order): the wait unsignals the semaphore and the image is shown.
PresentStarts ==
    /\ presents # <<>>
    /\ LET p == Head(presents)
       IN /\ render_finished_semaphores[p.wait]
          /\ render_finished_semaphores' =
                [render_finished_semaphores EXCEPT ![p.wait] = FALSE]
          /\ images' = [images EXCEPT ![p.image] = [state |-> "shown", frame |-> p.frame]]
    /\ presents' = Tail(presents)
    /\ UNCHANGED <<env, call, dev, ctl, own, win, in_flight_fences, image_available_semaphores,
                   acquires, batches, loop>>

\* The presentation engine is done with an image it has shown.
ImageReleased(i) ==
    /\ images[i].state = "shown"
    /\ images' = [images EXCEPT ![i] = FreeImage]
    /\ UNCHANGED <<env, call, dev, ctl, own, win, sync, acquires, batches, presents, loop>>

Driver ==
    \/ \E a \in acquires : AcquireSignals(a)
    \/ \E b \in batches : SubmitStarts(b)
    \/ \E b \in batches : SubmitCompletes(b)
    \/ PresentStarts
    \/ \E i \in DOMAIN images : ImageReleased(i)

\* ------------------------------------------------------------------- Next

New ==
    \/ CheckLayers
    \/ Window_new
    \/ Instance_new
    \/ DebugLayer_new
    \/ Surface_new
    \/ PhysicalDevice_new
    \/ LogicalDevice_new
    \/ Swapchain_new
    \/ ImageViews_new
    \/ RenderPass_new
    \/ GraphicsPipeline_new
    \/ Framebuffers_new
    \/ CommandPool_new
    \/ CommandBuffers_new
    \/ SyncObjects_new
    \/ New_return
    \/ NewPanics

DrawFrame ==
    \/ SyncObjects_wait_in_flight_fence
    \/ SyncObjects_reset_in_flight_fence
    \/ Swapchain_acquire_next_image
    \/ CommandBuffers_reset
    \/ CommandBuffers_record
    \/ Queue_submit
    \/ Swapchain_queue_present
    \/ Advance

Run ==
    \/ LoopCheck
    \/ Window_poll_events
    \/ DrawFrame
    \/ LogicalDevice_wait_idle
    \/ Main_end
    \/ RunPanics

Next ==
    \/ New
    \/ Run
    \/ UserCloses
    \/ Driver

Spec == Init /\ [][Next]_vars

\* A debug build on the machine of Init.
InitLive ==
    /\ validation = TRUE
    /\ numImages \in 2..MaxImages
    /\ devices = <<UnifiedGpu>>
    /\ Start

\* The program with its scheduling: the main thread goes on with draw_frame
\* whenever its next call can return, the presentation engine signals the
\* semaphore of every acquire, and the queue starts and completes every
\* batch whose wait is satisfied.  Nothing is assumed about errors, about
\* the user, or about the presentation engine taking up present requests.
SpecLive ==
    /\ InitLive
    /\ [][Next]_vars
    /\ WF_vars(DrawFrame)
    /\ WF_vars(\E a \in acquires : AcquireSignals(a))
    /\ WF_vars(\E b \in batches : SubmitStarts(b))
    /\ WF_vars(\E b \in batches : SubmitCompletes(b))

\* The same program on a machine that may keep graphics and present on
\* separate queue families.
SpecSplitQueues == InitSplitQueues /\ [][Next]_vars

\* Mutant of sharing_mode: always EXCLUSIVE.
Mut_SharingAlwaysExclusive(graphics, present) ==
    [image_sharing_mode |-> "EXCLUSIVE", queue_family_indices |-> <<>>]

\* Swapchain::new: the sharing mode of the swapchain images and the queue
\* family indices given with it.
sharing_mode(graphics, present) ==
    IF graphics # present
    THEN [image_sharing_mode |-> "CONCURRENT",
          queue_family_indices |-> <<graphics, present>>]
    ELSE [image_sharing_mode |-> "EXCLUSIVE", queue_family_indices |-> <<>>]

\* Mutant of create_queue_create_infos: one info per element.
Mut_QueueInfoPerElement(indices) == indices

\* The loop of create_queue_create_infos from the i-th index on, with the
\* infos pushed so far (each named by its queue_family_index; they are
\* also the processed indices).
RECURSIVE PushQueueInfos(_, _, _)
PushQueueInfos(indices, i, queue_create_infos) ==
    IF i > Len(indices)
    THEN queue_create_infos
    ELSE PushQueueInfos(indices, i + 1,
            IF indices[i] \notin Range(queue_create_infos)
            THEN Append(queue_create_infos, indices[i])
            ELSE queue_create_infos)

\* create_queue_create_infos: one DeviceQueueCreateInfo per index not yet
\* processed.
create_queue_create_infos(indices) == PushQueueInfos(indices, 1, <<>>)

\* ------------------------------------------ the selection functions, called

\* The extents a window or a surface may have.
Extents == [width : 0..MaxExtent, height : 0..MaxExtent]

\* The image counts a surface may report: at least one image, and a maximum
\* that is 0 (no limit) or not below the minimum.
ImageCounts ==
    {c \in [min_image_count : 1..MaxImageCount, max_image_count : 0..MaxImageCount] :
        c.max_image_count = 0 \/ c.max_image_count >= c.min_image_count}

Call_check_validation_layer_support ==
    /\ call = NoCall
    /\ \E layers \in LayerLists :
          call' = [fn |-> "check_validation_layer_support", layers |-> layers,
                   ret |-> check_validation_layer_support(layers)]
    /\ UNCHANGED <<env, dev, ctl, own, win, sync, gpu, loop>>

Call_api2_Instance_new ==
    /\ call = NoCall
    /\ \E enable_debug_layer \in BOOLEAN, layers \in LayerLists :
          call' = [fn |-> "api2::Instance::new",
                   enable_debug_layer |-> enable_debug_layer, layers |-> layers,
                   ret |-> api2_Instance_new(enable_debug_layer, layers)]
    /\ UNCHANGED <<env, dev, ctl, own, win, sync, gpu, loop>>

Call_PhysicalDevice_new ==
    /\ call = NoCall
    /\ \E enumeration \in Enumerations :
          call' = [fn |-> "PhysicalDevice::new", enumeration |-> enumeration,
                   ret |-> PhysicalDevice_select(enumeration)]
    /\ UNCHANGED <<env, dev, ctl, own, win, sync, gpu, loop>>

Call_api2_Device_new ==
    /\ call = NoCall
    /\ \E enumeration \in Enumerations, extensions \in ExtensionLists,
          device_created \in BOOLEAN :
          call' = [fn |-> "api2::Device::new", enumeration |-> enumeration,
                   extensions |-> extensions,
                   device_created |-> device_created,
                   create_device |-> Device_create_info(enumeration, extensions),
                   ret |-> Device_select(enumeration, extensions, device_created)]
    /\ UNCHANGED <<env, dev, ctl, own, win, sync, gpu, loop>>

Call_choose_format ==
    /\ call = NoCall
    /\ \E formats \in SeqsOf(SurfaceFormats, 1, MaxFormats) :
          call' = [fn |-> "choose_format", formats |-> formats,
                   ret |-> choose_format(formats)]
    /\ UNCHANGED <<env, dev, ctl, own, win, sync, gpu, loop>>

Call_choose_present_mode ==
    /\ call = NoCall
    /\ \E present_modes \in SeqsOf(PresentModes, 1, MaxFormats) :
          call' = [fn |-> "choose_present_mode", present_modes |-> present_modes,
                   ret |-> choose_present_mode(present_modes)]
    /\ UNCHANGED <<env, dev, ctl, own, win, sync, gpu, loop>>

Call_choose_extent ==
    /\ call = NoCall
    /\ \E size \in (0..MaxExtent) \X (0..MaxExtent), lo \in Extents, hi \in Extents :
          /\ lo.width <= hi.width
          /\ lo.height <= hi.height
          /\ call' = [fn |-> "choose_extent", size |-> size,
                      min_image_extent |-> lo, max_image_extent |-> hi,
                      ret |-> choose_extent(size, lo, hi)]
    /\ UNCHANGED <<env, dev, ctl, own, win, sync, gpu, loop>>

Call_image_count ==
    /\ call = NoCall
    /\ \E capabilities \in ImageCounts :
          call' = [fn |-> "image_count", capabilities |-> capabilities,
                   ret |-> image_count(capabilities)]
    /\ UNCHANGED <<env, dev, ctl, own, win, sync, gpu, loop>>

Call_sharing_mode ==
    /\ call = NoCall
    /\ \E graphics \in 0..(MaxFamilies - 1), present \in 0..(MaxFamilies - 1) :
          call' = [fn |-> "sharing_mode", graphics_family |-> graphics,
                   present_family |-> present,
                   ret |-> sharing_mode(graphics, present)]
    /\ UNCHANGED <<env, dev, ctl, own, win, sync, gpu, loop>>

Call_find_queue_families ==
    /\ call = NoCall
    /\ \E families \in SeqsOf([graphics : BOOLEAN, present : {"yes", "no", "error"}],
                               0, MaxFamilies) :
          LET indices == find_queue_families([families |-> families])
          IN call' = [fn |-> "find_queue_families", families |-> families,
                      ret |-> indices,
                      is_complete |-> indices.ok /\ is_complete(indices)]
    /\ UNCHANGED <<env, dev, ctl, own, win, sync, gpu, loop>>

Call_create_queue_create_infos ==
    /\ call = NoCall
    /\ \E indices \in SeqsOf(0..(MaxFamilies - 1), 0, MaxFamilies) :
          call' = [fn |-> "create_queue_create_infos", indices |-> indices,
                   ret |-> create_queue_create_infos(indices)]
    /\ UNCHANGED <<env, dev, ctl, own, win, sync, gpu, loop>>

Calls ==
    \/ Call_sharing_mode
    \/ Call_find_queue_families
    \/ Call_create_queue_create_infos
    \/ Call_check_validation_layer_support
    \/ Call_api2_Instance_new
    \/ Call_PhysicalDevice_new
    \/ Call_api2_Device_new
    \/ Call_choose_format
    \/ Call_choose_present_mode
    \/ Call_choose_extent
    \/ Call_image_count

\* The selection functions on every answer the driver may give, within the
\* bounds.
SpecCalls == InitSplitQueues /\ [][Calls]_vars


\* ================================================================== claims

IsPrefix(s, t) == Len(s) <= Len(t) /\ \A i \in 1..Len(s) : s[i] = t[i]

\* new() returned: the whole chain is constructed.
Constructed == held["sync_objects"] # <<>>

\* The statements of draw_frame.
DrawSteps ==
    {"wait_fence", "reset_fence", "acquire", "reset_cb", "record", "submit",
     "present", "advance"}

\* ---- C1
\* C1: whenever draw_frame resets or re-records a command buffer, the queue
\* has finished every earlier submission that contained that command buffer.
C1_ResetAfterGpuFinished ==
    [][ /\ (pc = "reset_cb" /\ pc' = "record")
            => \A b \in batches : RESET_INDEX \notin b.cbs
        /\ (pc = "record" /\ pc' = "submit")
            => \A b \in batches : RECORD_INDEX \notin b.cbs ]_vars

\* ---- C2
\* The order of the driver calls of one draw_frame call.
FrameOrder ==
    <<"wait_fence", "reset_fence", "acquire", "reset_cb", "record", "submit",
      "present", "advance">>

\* C2: the calls of a draw_frame call are issued in the fixed order, none
\* skipped or repeated (the calls so far are a prefix of the order, the next
\* statement is the next call of the order, a call that returned issued all
\* of them), and a frame starts only after the previous frame advanced.
C2_FixedOrder ==
    /\ IsPrefix(ops, FrameOrder)
    /\ pc \in DrawSteps => (Len(ops) < Len(FrameOrder) /\ pc = FrameOrder[Len(ops) + 1])
    /\ pc \in DrawSteps \cup {"poll_events"} => frame = completed + 1
    /\ pc \in {"loop_check", "wait_idle", "main_end"} =>
          /\ frame = completed
          /\ frame > 0 => ops = FrameOrder
    /\ Cardinality(batches) <= frame
    /\ \A b \in batches : b.frame <= frame

C2_Witness == completed >= 2 /\ ops = FrameOrder /\ pc = "loop_check"

\* ---- C3
\* C3: current_frame starts at 0, stays in 0..MAX_FRAMES_IN_FLIGHT-1, and is
\* the number of completed frames modulo MAX_FRAMES_IN_FLIGHT: every
\* completed frame advances it by one modulo MAX_FRAMES_IN_FLIGHT, it is 0
\* again after MAX_FRAMES_IN_FLIGHT frames, and frame n uses slot
\* (n - 1) mod MAX_FRAMES_IN_FLIGHT.
C3_RoundRobin ==
    /\ current_frame \in 0..(MAX_FRAMES_IN_FLIGHT - 1)
    /\ current_frame = completed % MAX_FRAMES_IN_FLIGHT
    /\ pc \in DrawSteps => current_frame = (frame - 1) % MAX_FRAMES_IN_FLIGHT
    /\ \A b \in batches : b.fence = (b.frame - 1) % MAX_FRAMES_IN_FLIGHT

C3_Witness == completed = MAX_FRAMES_IN_FLIGHT /\ current_frame = 0 /\ pc = "loop_check"

\* ---- C4
\* C4: at most MAX_FRAMES_IN_FLIGHT submitted frames are unfinished (their
\* fence not yet signaled by their completion) at any time.
C4_BoundedInFlight == Cardinality(InFlight) <= MAX_FRAMES_IN_FLIGHT

C4_Witness ==
    /\ Cardinality(InFlight) = MAX_FRAMES_IN_FLIGHT
    /\ pc = "wait_fence"
    /\ frame > MAX_FRAMES_IN_FLIGHT

\* ---- C5
\* C5: a frame's batch is past its wait stage only if the image acquired in
\* that frame has been released to it (the acquire's semaphore signal has
\* happened); an image is shown only if the batch of the frame that
\* presented it has completed; and while a batch is unfinished its fence is
\* unsignaled.
C5_SemaphoreOrder ==
    /\ \A b \in batches : b.stage = "running" =>
          \A a \in acquires : a.frame # b.frame
    /\ \A i \in DOMAIN images : images[i].state = "shown" =>
          images[i].frame \notin InFlight
    /\ \A b \in batches : ~in_flight_fences[b.fence]

C5_Witness ==
    /\ \E b \in batches : b.stage = "running" /\ b.frame >= 3
    /\ \E i \in DOMAIN images : images[i].state = "shown" /\ images[i].frame >= 2

\* ---- C6
\* C6: a frame is started only after should_close() returned false; once it
\* returned true no frame is started and wait_idle follows; when run() has
\* returned the queue holds no unfinished work, so the destroy calls of the
\* teardown that follows are issued with no work in flight.
C6_DrainBeforeTeardown ==
    /\ pc \in DrawSteps \cup {"poll_events"} => ~observedClose
    /\ pc \in {"wait_idle", "main_end"} => observedClose
    /\ exitKind = "returned" =>
          /\ observedClose
          /\ pc \in {"main_end", "exit"}
          /\ batches = {}
          /\ presents = <<>>

C6_Witness ==
    /\ exitKind = "returned"
    /\ pc = "exit"
    /\ completed >= 2
    /\ <<"device", 0>> \in Range(destroyed)

\* ---- C7
\* C7: in the teardown of the fully constructed application every destroy
\* call is issued while the parent handle is alive and on a handle that is
\* alive: no handle is destroyed after the handle it was created from, none
\* twice; when the teardown is complete every device child has been
\* destroyed, before the device, and destroy_instance is the last call.
C7_ParentsOutliveChildren ==
    Constructed =>
      /\ \A i \in 1..Len(destroyed) : \A j \in 1..(i - 1) :
            /\ destroyed[j][1] # Parent(destroyed[i][1])
            /\ destroyed[j] # destroyed[i]
      /\ pc = "exit" =>
            /\ destroyed # <<>>
            /\ destroyed[Len(destroyed)] = <<"instance", 0>>
            /\ Range(created) \subseteq Range(destroyed)

C7_Witness ==
    /\ Constructed
    /\ pc = "exit"
    /\ validation
    /\ Len(destroyed) = Len(created)

\* ---- C8
\* The object of the claim's list a handle belongs to.
ObjectOf(kind) ==
    CASE kind \in {"pipeline_layout", "pipeline"} -> "pipeline"
      [] kind \in {"image_available", "render_finished", "fence"} -> "sync_objects"
      [] OTHER -> kind

\* The objects of a log of create or destroy calls in the order of their
\* first call; the shader modules, which live only inside the pipeline's
\* constructor, are left out.
RECURSIVE ObjectOrder(_)
ObjectOrder(log) ==
    IF log = <<>>
    THEN <<>>
    ELSE LET front == ObjectOrder(SubSeq(log, 1, Len(log) - 1))
             obj == ObjectOf(log[Len(log)][1])
         IN IF obj = "shader_module" \/ obj \in Range(front)
            THEN front
            ELSE Append(front, obj)

TeardownDone == Constructed /\ pc = "exit"

\* C8 as stated: the objects are destroyed in strict reverse order of their
\* creation.
C8_ReverseCreationOrder ==
    TeardownDone => ObjectOrder(destroyed) = Reverse(ObjectOrder(created))

\* The order in which the last reference to each wrapper goes away.
TeardownOrder ==
    <<"framebuffer", "image_view", "pipeline", "render_pass", "swapchain",
      "surface", "command_pool", "sync_objects", "device", "messenger",
      "instance">>

\* C8, amended: the objects are destroyed in the order framebuffers, image
\* views, pipeline, render pass, swapchain, surface, command pool, sync
\* objects, logical device, debug messenger (when there is one), instance.
C8_OwnershipOrder ==
    /\ Constructed =>
          IsPrefix(ObjectOrder(destroyed),
                   SelectSeq(TeardownOrder, LAMBDA k : k \in Range(ObjectOrder(created))))
    /\ TeardownDone =>
          ObjectOrder(destroyed) =
              SelectSeq(TeardownOrder, LAMBDA k : k \in Range(ObjectOrder(created)))

C8_Witness ==
    /\ TeardownDone
    /\ validation
    /\ Len(ObjectOrder(destroyed)) = Len(TeardownOrder)

\* ---- C9
\* How often handle h occurs in a log.
Count(log, h) == Cardinality({i \in 1..Len(log) : log[i] = h})

\* C9: no handle is destroyed twice or without having been created; the
\* handles of a wrapper are destroyed exactly when the strong count of its
\* Rc has gone to zero (never while a clone is alive); and when the
\* teardown of the constructed application is complete every handle new()
\* created has been destroyed exactly once.
C9_DestroyedExactlyOnce ==
    /\ \A h \in Range(destroyed) : Count(destroyed, h) = 1 /\ Count(created, h) = 1
    /\ \A o \in Objects : \A h \in Range(held[o]) :
          (h \in Range(destroyed)) <=> (rc[o] = 0)
    /\ TeardownDone =>
          /\ \A h \in Range(created) : Count(destroyed, h) = 1
          /\ \A o \in Objects : rc[o] = 0

C9_Witness ==
    /\ TeardownDone
    /\ exitKind = "returned"
    /\ Len(destroyed) = Len(created)
    /\ Len(created) > 20

\* ---- C10
\* C10: SyncObjects::new(device, MAX_FRAMES_IN_FLIGHT) creates exactly
\* MAX_FRAMES_IN_FLIGHT image-available semaphores, render-finished
\* semaphores and fences: one of each per frame slot.
C10_OnePerSlot ==
    Constructed =>
      /\ DOMAIN image_available_semaphores = 0..(MAX_FRAMES_IN_FLIGHT - 1)
      /\ DOMAIN render_finished_semaphores = 0..(MAX_FRAMES_IN_FLIGHT - 1)
      /\ DOMAIN in_flight_fences = 0..(MAX_FRAMES_IN_FLIGHT - 1)
      /\ \A k \in {"image_available", "render_finished", "fence"} :
            Cardinality({h \in Range(created) : h[1] = k}) = MAX_FRAMES_IN_FLIGHT

\* ---- C11
\* C11: the present of a frame names the image index that frame's acquire
\* returned, and it is submitted to a queue of the present family selected
\* for the device, also when that family is not the graphics family.
C11_PresentOnPresentQueue ==
    /\ \A i \in DOMAIN images :
          (frame > 0 /\ images[i].frame = frame) => i = image_index
    /\ \A k \in 1..Len(presents) :
          /\ presents[k].frame = frame => presents[k].image = image_index
          /\ presents[k].queue.family = present_family

\* ---- C12
\* The calls of the two device selection functions.
SelectionCall == call.fn \in {"PhysicalDevice::new", "api2::Device::new"}

\* The indices (from 0) of the families of a device with a property.
GraphicsFamilies(d) == {i \in 1..Len(d.families) : d.families[i].graphics}
PresentFamilies(d) == {i \in 1..Len(d.families) : d.families[i].present = "yes"}

\* The three checks, read off the driver's data: the family scan goes
\* through and finds a graphics and a present family; the swapchain
\* extension is among the device's extensions; the surface has at least one
\* format and one present mode.
Qualifies(d) ==
    /\ \A i \in 1..Len(d.families) : d.families[i].present # "error"
    /\ GraphicsFamilies(d) # {}
    /\ PresentFamilies(d) # {}
    /\ d.ext_query = "ok"
    /\ "VK_KHR_swapchain" \in Range(d.extensions)
    /\ d.support_query = "ok"
    /\ Len(d.formats) >= 1
    /\ Len(d.present_modes) >= 1

Largest(S) == CHOOSE i \in S : \A j \in S : j <= i

\* C12: when the selection succeeds, the device chosen is one of the
\* enumeration that passes the three checks, no device before it in the
\* enumeration passes them, and the queue family indices are those the
\* device's data determine (the last graphics family, the last present
\* family).
C12_FirstQualifyingDevice ==
    (SelectionCall /\ call.ret.result = "Ok") =>
       LET devs == call.enumeration.devices
           k == call.ret.device
       IN /\ k \in 1..Len(devs)
          /\ Qualifies(devs[k])
          /\ \A j \in 1..(k - 1) : ~Qualifies(devs[j])
          /\ call.ret.graphics_family = Largest(GraphicsFamilies(devs[k])) - 1
          /\ call.ret.present_family = Largest(PresentFamilies(devs[k])) - 1

C12_Witness ==
    /\ call.fn = "api2::Device::new"
    /\ call.ret.result = "Ok"
    /\ call.ret.device = 3
    /\ call.ret.graphics_family # call.ret.present_family
    /\ call.enumeration.devices[1].ext_query = "ok"

\* ---- C13
\* C13: the selection returns NoDevices exactly when the enumeration
\* succeeded and is empty, and then no per-device query was made.
C13_NoDevicesIffEmpty ==
    SelectionCall =>
       /\ (call.ret.result = "NoDevices")
             <=> (call.enumeration.ok /\ Len(call.enumeration.devices) = 0)
       /\ call.ret.result = "NoDevices" => call.ret.queries = <<>>

C13_Witness ==
    /\ call.fn = "PhysicalDevice::new"
    /\ call.ret.result = "NoDevices"
    /\ call.enumeration.ok

\* ---- C14
\* Every device of the enumeration had its queue families queried.
AllExamined ==
    \A i \in 1..Len(call.enumeration.devices) :
       <<i, "queue_families">> \in Range(call.ret.queries)

NoneQualifies ==
    /\ call.enumeration.ok
    /\ Len(call.enumeration.devices) >= 1
    /\ \A i \in 1..Len(call.enumeration.devices) :
          ~Qualifies(call.enumeration.devices[i])

\* C14 as stated: whenever the enumeration is non-empty and no device passes
\* the three checks, the selection returns NoSuitableDevices and has
\* examined every device.
C14_NoSuitableWhenNoneQualifies ==
    (SelectionCall /\ NoneQualifies) =>
       /\ call.ret.result = "NoSuitableDevices"
       /\ AllExamined

\* A device on which the selection asks for the extensions, or for the
\* swapchain support, and the driver answers with an error.
QueryFails(d) ==
    /\ \A i \in 1..Len(d.families) : d.families[i].present # "error"
    /\ GraphicsFamilies(d) # {}
    /\ PresentFamilies(d) # {}
    /\ \/ d.ext_query = "error"
       \/ /\ d.ext_query = "ok"
          /\ "VK_KHR_swapchain" \in Range(d.extensions)
          /\ d.support_query = "error"

\* C14, amended: when the enumeration is non-empty and no device passes the
\* three checks, the selection returns NoSuitableDevices, having examined
\* every device, provided no extension or swapchain-support query it makes
\* fails; if one fails, the selection returns that driver error without
\* examining the devices after the failing one.
C14_NoSuitableUnlessQueryFails ==
    (SelectionCall /\ NoneQualifies) =>
       LET devs == call.enumeration.devices
           failing == {i \in 1..Len(devs) : QueryFails(devs[i])}
       IN IF failing = {}
          THEN /\ call.ret.result = "NoSuitableDevices"
               /\ AllExamined
          ELSE /\ call.ret.result = "Vulkan"
               /\ \A q \in Range(call.ret.queries) :
                     \A i \in failing : q[1] <= i

C14_Witness ==
    /\ call.fn = "PhysicalDevice::new"
    /\ NoneQualifies
    /\ Len(call.enumeration.devices) = 3
    /\ call.ret.result = "NoSuitableDevices"
    /\ Len(call.ret.queries) >= 7

\* ---- C15
\* C15: with validation requested, the start-up check reports the layer as
\* missing exactly when VK_LAYER_KHRONOS_validation is not among the layers
\* enumerated; api2 Instance::new with enable_debug_layer returns
\* NoValidationLayer exactly in that case and then creates no instance, and
\* with the layer available it goes on to create the instance.
C15_NoValidationLayerIffUnavailable ==
    /\ call.fn = "check_validation_layer_support" =>
          (call.ret <=> "VK_LAYER_KHRONOS_validation" \in Range(call.layers))
    /\ (call.fn = "api2::Instance::new" /\ call.enable_debug_layer) =>
          IF "VK_LAYER_KHRONOS_validation" \in Range(call.layers)
          THEN /\ call.ret.result # "NoValidationLayer"
               /\ call.ret.create_instance
          ELSE /\ call.ret.result = "NoValidationLayer"
               /\ ~call.ret.create_instance

\* ---- C16
\* C16: when a step of draw_frame reports an error the program is at its
\* end: the steps issued in that frame are the ones before the failing
\* step and nothing of a later step exists (no acquire, no completely
\* recorded command buffer, no batch, no present request of that frame),
\* current_frame is still the frame's slot, and no other frame was started.
C16_AbortAtFailingStep ==
    exitKind = "panicked" =>
       /\ pc = "exit"
       /\ frame = completed + 1 =>
             /\ IsPrefix(ops, FrameOrder)
             /\ Len(ops) <= 6
             /\ current_frame = (frame - 1) % MAX_FRAMES_IN_FLIGHT
             /\ Len(ops) = 1 => in_flight_fences[current_frame]
             /\ Len(ops) < 3 =>
                   /\ \A a \in acquires : a.frame # frame
                   /\ \A i \in DOMAIN images : images[i].frame # frame
             /\ Len(ops) = 4 =>
                   command_buffers[RECORD_INDEX].state \in {"initial", "recording"}
             /\ Len(ops) < 6 => \A b \in batches : b.frame # frame
             /\ \A k \in 1..Len(presents) : presents[k].frame # frame
             /\ \A i \in DOMAIN images :
                   images[i].frame = frame => images[i].state = "acquired"

C16_Witness ==
    /\ exitKind = "panicked"
    /\ pc = "exit"
    /\ frame = 3
    /\ completed = 2
    /\ Len(ops) = 5

\* ---- C17
\* C17: on a non-empty list choose_format returns the B8G8R8A8_SRGB /
\* SRGB_NONLINEAR entry when the list has one, wherever it is, and the
\* first entry otherwise; the result is an entry of the list.
C17_PreferredFormatOrFirst ==
    call.fn = "choose_format" =>
       LET wanted == [format |-> "B8G8R8A8_SRGB", color_space |-> "SRGB_NONLINEAR"]
       IN /\ call.ret \in Range(call.formats)
          /\ call.ret = IF wanted \in Range(call.formats)
                        THEN wanted
                        ELSE call.formats[1]

C17_Witness ==
    /\ call.fn = "choose_format"
    /\ Len(call.formats) = 3
    /\ call.formats[1].format = "B8G8R8A8_UNORM"
    /\ call.formats[2].color_space = "EXTENDED_SRGB_LINEAR"
    /\ call.ret = call.formats[3]
    /\ call.ret.format = "B8G8R8A8_SRGB"

\* ---- C18
\* C18: choose_present_mode returns MAILBOX when MAILBOX is anywhere in the
\* list and FIFO otherwise, never another mode.
C18_MailboxOrFifo ==
    call.fn = "choose_present_mode" =>
       /\ call.ret \in {"MAILBOX", "FIFO"}
       /\ (call.ret = "MAILBOX") <=> ("MAILBOX" \in Range(call.present_modes))

C18_Witness ==
    /\ call.fn = "choose_present_mode"
    /\ call.present_modes = <<"IMMEDIATE", "FIFO", "MAILBOX">>
    /\ call.ret = "MAILBOX"

\* ---- C19
\* A value brought into [lo, hi]: lo below it, hi above it, else unchanged.
Clamped(v, lo, hi, r) ==
    /\ v < lo => r = lo
    /\ v > hi => r = hi
    /\ (lo <= v /\ v <= hi) => r = v

\* C19: choose_extent clamps the width and the height, each on its own, into
\* the surface's bounds.
C19_ExtentClamped ==
    call.fn = "choose_extent" =>
       /\ Clamped(call.size[1], call.min_image_extent.width,
                  call.max_image_extent.width, call.ret.width)
       /\ Clamped(call.size[2], call.min_image_extent.height,
                  call.max_image_extent.height, call.ret.height)

C19_Witness ==
    /\ call.fn = "choose_extent"
    /\ call.size[1] < call.min_image_extent.width
    /\ call.size[2] > call.max_image_extent.height
    /\ call.min_image_extent.height < call.max_image_extent.height
    /\ call.ret = [width |-> call.min_image_extent.width,
                   height |-> call.max_image_extent.height]

\* ---- C20
\* C20: the image count asked for is min_image_count + 1, or max_image_count
\* when that is not 0 and min_image_count + 1 is above it; a
\* max_image_count of 0 caps nothing; the count is never below
\* min_image_count.
C20_ImageCount ==
    call.fn = "image_count" =>
       LET lo == call.capabilities.min_image_count
           hi == call.capabilities.max_image_count
       IN /\ call.ret >= lo
          /\ hi = 0 => call.ret = lo + 1
          /\ (hi # 0 /\ lo + 1 > hi) => call.ret = hi
          /\ (hi # 0 /\ lo + 1 <= hi) => call.ret = lo + 1

C20_Witness ==
    /\ call.fn = "image_count"
    /\ call.capabilities.min_image_count = 2
    /\ call.capabilities.max_image_count = 2
    /\ call.ret = 2

\* ---- C21
\* C21: the swapchain is created CONCURRENT with the two queue family
\* indices when the graphics and the present family differ, and EXCLUSIVE
\* when they are the same family.
C21_SharingMode ==
    call.fn = "sharing_mode" =>
       IF call.graphics_family = call.present_family
       THEN call.ret.image_sharing_mode = "EXCLUSIVE"
       ELSE /\ call.ret.image_sharing_mode = "CONCURRENT"
            /\ call.ret.queue_family_indices
                  = <<call.graphics_family, call.present_family>>

C21_Witness ==
    /\ call.fn = "sharing_mode"
    /\ call.graphics_family = 0
    /\ call.present_family = 1
    /\ call.ret.image_sharing_mode = "CONCURRENT"

\* ---- C22
\* C22: every command buffer handed to queue_submit has been reset and
\* completely recorded during the same draw_frame call, for the image that
\* call acquired.
C22_SubmittedBuffersRecorded ==
    [][ (pc = "submit" /\ pc' = "present")
          => \A c \in SubmittedBuffers :
                /\ command_buffers[c].state = "executable"
                /\ command_buffers[c].image = image_index ]_vars

\* ---- C23
\* The slot index a draw_frame call has at its entry: current_frame starts
\* at 0 and is advanced once per completed call.
SlotOf(f) == (f - 1) % MAX_FRAMES_IN_FLIGHT

\* The per-slot objects handed to the driver by the calls made so far all
\* belong to the slot of their draw_frame call.
SlotObjects ==
    /\ pc \in DrawSteps => current_frame = SlotOf(frame)
    /\ pc \in {"acquire", "reset_cb", "record", "submit"}
          => ~in_flight_fences[SlotOf(frame)]
    /\ \A a \in acquires : a.sem = SlotOf(a.frame)
    /\ \A b \in batches :
          /\ b.wait = SlotOf(b.frame)
          /\ b.signal = SlotOf(b.frame)
          /\ b.fence = SlotOf(b.frame)
    /\ \A k \in DOMAIN presents : presents[k].wait = SlotOf(presents[k].frame)

\* C23: within one draw_frame call the fence waited on, the fence reset, the
\* semaphore given to the acquire, the semaphore the submit waits on, the
\* semaphore the submit signals and the present waits on, and the fence given
\* to the submit all belong to the slot current_frame had at entry, and
\* current_frame changes only in the final advance.
C23_OneSlotPerFrame ==
    [][ /\ SlotObjects'
        /\ (pc = "wait_fence" /\ pc' = "reset_fence")
              => in_flight_fences[SlotOf(frame)]
        /\ current_frame' # current_frame
              => pc = "advance" /\ current_frame' = SlotOf(frame + 1) ]_vars

C23_Witness ==
    /\ pc = "advance"
    /\ frame = 2
    /\ current_frame = 1
    /\ \E b \in batches : b.frame = 2 /\ b.wait = 1 /\ b.signal = 1 /\ b.fence = 1
    /\ \E k \in DOMAIN presents : presents[k].frame = 2 /\ presents[k].wait = 1

\* ---- C25
\* The image-available semaphores alternate: an acquire that has still to
\* signal its semaphore finds it unsignaled, with no other signal pending
\* on it and no earlier batch still waiting on it.
ImageAvailableAlternates ==
    \A a \in acquires :
       /\ ~image_available_semaphores[a.sem]
       /\ \A o \in acquires : o.sem = a.sem => o = a
       /\ \A b \in batches : (b.wait = a.sem /\ b.stage = "queued") => b.frame >= a.frame

\* The render-finished semaphores alternate: a batch that has still to
\* signal its semaphore finds it unsignaled, with no other signal pending
\* on it and no earlier present still waiting on it.
RenderFinishedAlternates ==
    \A b \in batches :
       /\ ~render_finished_semaphores[b.signal]
       /\ \A o \in batches : o.signal = b.signal => o = b
       /\ \A k \in DOMAIN presents :
             presents[k].wait = b.signal => presents[k].frame >= b.frame

\* C25: every binary semaphore strictly alternates between one signal and
\* one wait: it is never handed to a signaling operation while an earlier
\* signal on it is pending or unconsumed by the previous waiter.
C25_SemaphoresAlternate ==
    /\ ImageAvailableAlternates
    /\ RenderFinishedAlternates

\* ---- C24
\* The assumption of C24 on the swapchain: an acquire that is waiting finds
\* a free image in the end.
SwapchainFreesAnImage ==
    (pc = "acquire") ~> (pc # "acquire" \/ \E i \in DOMAIN images : images[i].state = "free")

\* C24: if the queue completes every batch and the swapchain frees an image
\* in the end, then every draw_frame call that has started completes (or
\* panics on a driver error): the wait on the slot's fence returns, on the
\* first use of the slot too, and every reset of a fence is followed in the
\* same call by a submit that signals that fence.
C24_DrawFrameCompletes ==
    SwapchainFreesAnImage =>
       /\ (pc = "wait_fence") ~> (pc = "loop_check" \/ exitKind = "panicked")
       /\ (pc = "acquire") ~>
             \/ exitKind = "panicked"
             \/ /\ pc = "present"
                /\ \E b \in batches : b.frame = frame /\ b.fence = current_frame

C24_Witness ==
    /\ pc = "loop_check"
    /\ completed = 3
    /\ numImages = 3
    /\ in_flight_fences[0]

\* ---- C26
\* C26: the swapchain images, the image views and the framebuffers are
\* three vectors of one length and one order (the k-th framebuffer is built
\* on the k-th view, which is of the k-th image), and the framebuffer that
\* record takes at framebuffers()[image_index] exists and is the one built
\* on the image just acquired.
C26_FramebufferOfAcquiredImage ==
    pc \in DrawSteps =>
       /\ Len(ImageViews_image_views) = Len(Swapchain_images)
       /\ Len(Framebuffers_framebuffers) = Len(Swapchain_images)
       /\ \A k \in DOMAIN Framebuffers_framebuffers :
             /\ ImageViews_image_views[k].image = Swapchain_images[k]
             /\ Framebuffers_framebuffers[k].attachments
                   = <<ImageViews_image_views[k].handle>>
       /\ pc \in {"reset_cb", "record", "submit"} =>
             /\ image_index + 1 \in DOMAIN Framebuffers_framebuffers
             /\ images[image_index].state = "acquired"
       /\ pc = "submit" =>
             \E v \in Range(ImageViews_image_views) :
                /\ command_buffers[RECORD_INDEX].framebuffer.attachments = <<v.handle>>
                /\ v.image = image_index

C26_Witness ==
    /\ pc = "submit"
    /\ numImages = 3
    /\ image_index = 2
    /\ command_buffers[RECORD_INDEX].framebuffer.handle = <<"framebuffer", 2>>
    /\ command_buffers[RECORD_INDEX].framebuffer.attachments = <<<<"image_view", 2>>>>

\* ---- C27
\* The family list of a find_queue_families call, as a device.
ScannedDevice == [families |-> call.families]

\* C27: find_queue_families, when no surface-support query fails, has gone
\* through every family and returns as graphics_family the highest index
\* whose flags include GRAPHICS and as present_family the highest index the
\* surface is supported on, each absent if there is no such family (the two
\* may be the same index); is_complete is true exactly if both are present.
\* A failing query ends the call with the driver's error.
C27_HighestFamilies ==
    call.fn = "find_queue_families" =>
       IF \E i \in DOMAIN call.families : call.families[i].present = "error"
       THEN ~call.ret.ok
       ELSE /\ call.ret.ok
            /\ call.ret.graphics_family =
                  IF GraphicsFamilies(ScannedDevice) = {} THEN NoFamily
                  ELSE Largest(GraphicsFamilies(ScannedDevice)) - 1
            /\ call.ret.present_family =
                  IF PresentFamilies(ScannedDevice) = {} THEN NoFamily
                  ELSE Largest(PresentFamilies(ScannedDevice)) - 1
            /\ call.is_complete <=>
                  /\ GraphicsFamilies(ScannedDevice) # {}
                  /\ PresentFamilies(ScannedDevice) # {}

C27_Witness ==
    /\ call.fn = "find_queue_families"
    /\ Len(call.families) = 3
    /\ call.families[1].graphics /\ call.families[1].present = "yes"
    /\ call.families[3].graphics /\ call.families[3].present = "yes"
    /\ call.ret.ok
    /\ call.ret.graphics_family = 2
    /\ call.ret.present_family = 2
    /\ call.is_complete

\* ---- C28
\* The position of the first occurrence of x in s.
FirstIndex(s, x) == CHOOSE i \in DOMAIN s : s[i] = x /\ \A j \in 1..(i - 1) : s[j] # x

NoDuplicates(s) == \A i, j \in DOMAIN s : s[i] = s[j] => i = j

\* C28: create_queue_create_infos returns one info per distinct family
\* index of its argument, in the order of first appearance: one info for
\* [g, p] with g = p and two when they differ, and a list without duplicates
\* is returned index for index.
C28_OneInfoPerDistinctFamily ==
    call.fn = "create_queue_create_infos" =>
       /\ NoDuplicates(call.ret)
       /\ Range(call.ret) = Range(call.indices)
       /\ \A i, j \in DOMAIN call.ret :
             i < j => FirstIndex(call.indices, call.ret[i]) < FirstIndex(call.indices, call.ret[j])
       /\ Len(call.indices) = 2 =>
             Len(call.ret) = IF call.indices[1] = call.indices[2] THEN 1 ELSE 2
       /\ NoDuplicates(call.indices) => call.ret = call.indices
       /\ create_queue_create_infos(call.ret) = call.ret

C28_Witness ==
    /\ call.fn = "create_queue_create_infos"
    /\ call.indices = <<1, 0, 1>>
    /\ call.ret = <<1, 0>>

\* ---- C29
\* C29: when api2 Device::new calls create_device, the physical device it
\* selected supports the swapchain extension and every extension of the
\* `extensions` argument, and every extension it enables was in the list
\* the device was tested against.
C29_EnabledExtensionsChecked ==
    (call.fn = "api2::Device::new" /\ call.create_device.called) =>
       LET d == call.enumeration.devices[call.create_device.physical]
       IN /\ "VK_KHR_swapchain" \in Range(d.extensions)
          /\ \A x \in Range(call.extensions) : x \in Range(d.extensions)
          /\ \A x \in Range(call.create_device.enabled_extension_names) :
                x \in Range(call.create_device.checked_extensions)

\* ---- C30
\* The handles a fully constructed wrapper holds.
Owned == UNION {Range(held[o]) : o \in Objects}

\* The kinds of object ImageViews::new, Framebuffers::new and
\* SyncObjects::new create one after the other.
LoopCreated == {"image_view", "framebuffer", "image_available", "render_finished", "fence"}

\* C30: when a constructor fails and new() panics, the objects the failing
\* ImageViews::new, Framebuffers::new or SyncObjects::new had created before
\* the failing call (fewer than it creates in all) are never destroyed,
\* while every object held by a fully constructed wrapper is destroyed
\* exactly once.
C30_NoRollback ==
    (exitKind = "panicked" /\ pc = "exit") =>
       /\ \A h \in Range(created) : h \in Owned => Count(destroyed, h) = 1
       /\ \A h \in Range(created) :
             (h \notin Owned /\ h[1] \in LoopCreated) => Count(destroyed, h) = 0
       /\ \A h \in Range(destroyed) : h \in Range(created)
       /\ held["image_views"] = <<>> =>
             Cardinality({h \in Range(created) : h[1] = "image_view"}) < numImages
       /\ held["framebuffers"] = <<>> =>
             Cardinality({h \in Range(created) : h[1] = "framebuffer"}) < numImages
       /\ held["sync_objects"] = <<>> =>
             Cardinality({h \in Range(created) :
                             h[1] \in {"image_available", "render_finished", "fence"}})
                < 3 * SyncIterations(MAX_FRAMES_IN_FLIGHT)

C30_Witness ==
    /\ exitKind = "panicked"
    /\ pc = "exit"
    /\ held["sync_objects"] = <<>>
    /\ <<"render_finished", 1>> \in Range(created)
    /\ <<"fence", 1>> \notin Range(created)
    /\ \A h \in Range(created) : h[1] \in LoopCreated =>
          (Count(destroyed, h) = 0 <=> h[1] \in {"image_available", "render_finished", "fence"})
    /\ Count(destroyed, <<"device", 0>>) = 1
    /\ Count(destroyed, <<"framebuffer", 0>>) = 1

====
